---------------------------- MODULE Spec2Model ----------------------------
(***************************************************************************)
(* A model of the tar archive engine of drone-cache (archive/tar/tar.go):  *)
(* Archive.Create walks source paths and writes tar entries to a byte      *)
(* sink, Archive.Extract reads entries back and restores them, deferring   *)
(* directory metadata to a length-sorted flush at end of stream.           *)
(*                                                                         *)
(* Paths are modelled as records [abs, segs]: abs says whether the string  *)
(* starts with the separator, segs is the sequence of its slash-separated  *)
(* components, kept raw ("." , ".." and empty components included) until   *)
(* an operation of path/filepath cleans them.  The separator is '/'.       *)
(***************************************************************************)
EXTENDS Integers, Sequences, FiniteSets, TLC

-----------------------------------------------------------------------------
(* Path strings                                                            *)

P(abs, segs) == [abs |-> abs, segs |-> segs]

\* the strings "", "." and "/"
EmptyPath == P(FALSE, <<>>)
DotPath == P(FALSE, <<".">>)
SlashPath == P(TRUE, <<>>)

RECURSIVE SumLen(_)
SumLen(segs) ==
    IF segs = <<>> THEN 0 ELSE Len(Head(segs)) + SumLen(Tail(segs))

\* len(s) of the path string: the bytes of the components, one separator
\* between neighbours, and the leading separator of an absolute path
StrLen(p) ==
    IF p.segs = <<>>
    THEN (IF p.abs THEN 1 ELSE 0)
    ELSE (IF p.abs THEN 1 ELSE 0) + SumLen(p.segs) + (Len(p.segs) - 1)

\* filepath.IsAbs
IsAbs(p) == p.abs

RECURSIVE CleanSegs(_, _, _)
CleanSegs(abs, todo, out) ==
    IF todo = <<>> THEN out
    ELSE LET s == Head(todo)
             rest == Tail(todo)
         IN  IF s = "" \/ s = "." THEN CleanSegs(abs, rest, out)
             ELSE IF s = ".."
                  THEN IF out # <<>> /\ out[Len(out)] # ".."
                       THEN CleanSegs(abs, rest, SubSeq(out, 1, Len(out) - 1))
                       ELSE IF abs THEN CleanSegs(abs, rest, out)
                            ELSE CleanSegs(abs, rest, Append(out, ".."))
                  ELSE CleanSegs(abs, rest, Append(out, s))

\* filepath.Clean: drops empty and "." components, resolves inner "..",
\* drops ".." at the root; the empty result of a relative path is "."
Clean(p) ==
    LET segs == CleanSegs(p.abs, p.segs, <<>>)
    IN  IF ~p.abs /\ segs = <<>> THEN DotPath ELSE P(p.abs, segs)

\* filepath.Join of two elements: empty elements are ignored, the rest are
\* joined with the separator and cleaned
Join(a, b) ==
    IF a = EmptyPath /\ b = EmptyPath THEN EmptyPath
    ELSE IF a = EmptyPath THEN Clean(b)
    ELSE IF b = EmptyPath THEN Clean(a)
    ELSE Clean(P(a.abs, a.segs \o b.segs))

\* filepath.Dir: all but the last element of the string, cleaned
Dir(p) ==
    IF p.segs = <<>> THEN Clean(p)
    ELSE Clean(P(p.abs, SubSeq(p.segs, 1, Len(p.segs) - 1)))

RECURSIVE StripTrailingEmpty(_)
StripTrailingEmpty(segs) ==
    IF segs # <<>> /\ segs[Len(segs)] = ""
    THEN StripTrailingEmpty(SubSeq(segs, 1, Len(segs) - 1))
    ELSE segs

\* filepath.Base: the last element of the string, trailing separators
\* removed; "." for the empty string, "/" for a string of separators
Base(p) ==
    LET segs == StripTrailingEmpty(p.segs)
    IN  IF p = EmptyPath THEN DotPath
        ELSE IF segs = <<>> THEN (IF p.abs THEN SlashPath ELSE DotPath)
        ELSE P(FALSE, <<segs[Len(segs)]>>)

RECURSIVE CommonLen(_, _)
CommonLen(b, t) ==
    IF b = <<>> \/ t = <<>> \/ Head(b) # Head(t) THEN 0
    ELSE 1 + CommonLen(Tail(b), Tail(t))

DotDots(n) == [i \in 1..n |-> ".."]

\* filepath.Rel(basepath, targpath): [err, path].  Both are cleaned; equal
\* paths give "."; a base of "." counts as empty; one rooted and the other
\* not is an error; the common leading elements are skipped; a base whose
\* first differing element is ".." is an error; every base element left
\* becomes "..", followed by what is left of the target.
Rel(basepath, targpath) ==
    LET RelClean(base, targ) ==
            LET bsegs == IF base = DotPath THEN <<>> ELSE base.segs
                tsegs == targ.segs
                k == CommonLen(bsegs, tsegs)
                brest == SubSeq(bsegs, k + 1, Len(bsegs))
                trest == SubSeq(tsegs, k + 1, Len(tsegs))
            IN  IF targ = base THEN [err |-> FALSE, path |-> DotPath]
                ELSE IF base.abs # targ.abs THEN [err |-> TRUE, path |-> EmptyPath]
                ELSE IF brest # <<>> /\ trest # <<>> /\ Head(brest) = ".."
                     THEN [err |-> TRUE, path |-> EmptyPath]
                ELSE IF brest # <<>>
                     THEN [err |-> FALSE, path |-> P(FALSE, DotDots(Len(brest)) \o trest)]
                ELSE [err |-> FALSE, path |-> P(FALSE, trest)]
    IN  RelClean(Clean(basepath), Clean(targpath))

\* strings.HasPrefix(s, "../") and strings.TrimPrefix(s, "../")
HasDotDotSlashPrefix(p) == ~p.abs /\ Len(p.segs) >= 2 /\ p.segs[1] = ".."
TrimDotDotSlashPrefix(p) == P(FALSE, Tail(p.segs))

RECURSIVE StripDotDots(_)
StripDotDots(rel) ==
    IF HasDotDotSlashPrefix(rel) THEN StripDotDots(TrimDotDotSlashPrefix(rel))
    ELSE rel

\* filepath.ToSlash: the separator is '/', the string is returned unchanged
ToSlash(p) == p

\* strings.TrimPrefix(s, "/")
TrimSlashPrefix(p) == IF p.abs THEN P(FALSE, p.segs) ELSE p

\* relative(parent, path): [err, name]
relative(parent, path) ==
    LET Named(name, r) ==
            IF r.err THEN [err |-> TRUE, name |-> EmptyPath]
            ELSE [err |-> FALSE,
                  name |-> TrimSlashPrefix(Join(ToSlash(StripDotDots(r.path)), name))]
    IN  Named(Base(path), Rel(parent, Dir(path)))

-----------------------------------------------------------------------------
(* The file system the os package acts on                                  *)
(*                                                                         *)
(* A file system is a function from absolute clean paths to nodes.  A      *)
(* node has a kind ("dir", "file", "symlink"), its bytes, permission bits, *)
(* modification, access and change time, numeric owner and group, and the  *)
(* target string of a symlink.  Times count half seconds.  Creating or    *)
(* removing an entry of a directory sets the directory's modification time *)
(* to the present, as does writing to a file.  Symlinks are not followed   *)
(* in intermediate components.  The permission bits do not restrict        *)
(* opening, creating or removing; the owner decides who may change mode,   *)
(* times and owner.                                                        *)

Node(kind, data, mode, mt, at, uid, gid, link) ==
    [kind |-> kind, data |-> data, mode |-> mode, mt |-> mt, at |-> at,
     ct |-> mt, uid |-> uid, gid |-> gid, link |-> link]

\* const defaultDirPermission = 0755
defaultDirPermission == 493

\* the two errors of the package that callers test for with errors.Is
ErrSourceNotReachable == "source not reachable"
ErrArchiveNotReadable == "archive not readable"

\* time.Time{}: the zero time, for which IsZero() holds
ZeroTime == 0
IsZero(t) == t = ZeroTime

\* the owner that may do anything (os.Geteuid() == 0)
RootUid == 0
CallerUid == RootUid + 1
OtherUid == RootUid + 2

\* the process's working directory, against which relative paths resolve
Cwd == P(TRUE, <<"w">>)

Abs(p) == IF p.abs THEN Clean(p) ELSE Clean(P(TRUE, Cwd.segs \o p.segs))

Parent(q) == P(TRUE, SubSeq(q.segs, 1, Len(q.segs) - 1))

\* the absolute clean paths q[1..k] of the directories above and at q
Prefixes(q) == {P(TRUE, SubSeq(q.segs, 1, k)) : k \in 1..Len(q.segs)}

IsAncestor(a, d) ==
    /\ Len(a.segs) < Len(d.segs)
    /\ SubSeq(d.segs, 1, Len(a.segs)) = a.segs

Exists(f, path) == Abs(path) \in DOMAIN f

IsDir(f, path) == Exists(f, path) /\ f[Abs(path)].kind = "dir"

\* f with node n at q
Put(f, q, n) == [x \in DOMAIN f \cup {q} |-> IF x = q THEN n ELSE f[x]]

\* f without q
Drop(f, q) == [x \in DOMAIN f \ {q} |-> f[x]]

\* the directory q gets a new modification time, its entries having changed
Touch(f, q, now) ==
    IF q \in DOMAIN f /\ f[q].kind = "dir"
    THEN [f EXCEPT ![q].mt = now]
    ELSE f

\* os.MkdirAll(path, perm) by a process running as euid/egid at time now:
\* nothing if path is a directory, an error if an existing component is no
\* directory, else every missing directory down to path is made with perm
MkdirAll(f, path, perm, euid, egid, now) ==
    LET q == Abs(path)
        pre == Prefixes(q)
        missing == {x \in pre : x \notin DOMAIN f}
        blocked == \E x \in pre : x \in DOMAIN f /\ f[x].kind # "dir"
        made == [x \in DOMAIN f \cup missing |->
                   IF x \in missing
                   THEN Node("dir", <<>>, perm, now, now, euid, egid, EmptyPath)
                   ELSE f[x]]
        top == CHOOSE x \in missing : \A y \in missing : Len(x.segs) <= Len(y.segs)
    IN  IF blocked THEN [err |-> TRUE, fs |-> f]
        ELSE IF missing = {} THEN [err |-> FALSE, fs |-> f]
        ELSE [err |-> FALSE, fs |-> Touch(made, Parent(top), now)]

\* os.OpenFile(path, O_CREATE|O_RDWR, perm): the file is created empty with
\* perm when it does not exist and opened as it is when it does (there is
\* no O_TRUNC); a directory or a missing parent is an error
OpenFile(f, path, perm, euid, egid, now) ==
    LET q == Abs(path)
    IN  IF q \in DOMAIN f
        THEN [err |-> f[q].kind # "file", fs |-> f]
        ELSE IF q.segs = <<>> \/ ~IsDir(f, Parent(q))
             THEN [err |-> TRUE, fs |-> f]
        ELSE [err |-> FALSE,
              fs |-> Touch(Put(f, q, Node("file", <<>>, perm, now, now,
                                           euid, egid, EmptyPath)),
                           Parent(q), now)]

\* io.Copy(f, r) into the file just opened: the bytes are written from
\* offset 0 over what the file holds; bytes beyond them stay
WriteAtStart(f, path, bytes, now) ==
    LET q == Abs(path)
        old == f[q].data
    IN  IF bytes = <<>> THEN f
        ELSE [f EXCEPT ![q].data = bytes \o SubSeq(old, Len(bytes) + 1, Len(old)),
                       ![q].mt = now]

HasEntries(f, q) == \E x \in DOMAIN f : x # q /\ x.segs # <<>> /\ Parent(x) = q

\* os.Remove(path): removes a file, a symlink or an empty directory
Remove(f, path, now) ==
    LET q == Abs(path)
    IN  IF q \notin DOMAIN f \/ HasEntries(f, q) THEN [err |-> TRUE, fs |-> f]
        ELSE [err |-> FALSE, fs |-> Touch(Drop(f, q), Parent(q), now)]

\* unlink(path): os.Lstat, and os.Remove when that succeeded
unlink(f, path, now) ==
    IF Exists(f, path) THEN Remove(f, path, now) ELSE [err |-> FALSE, fs |-> f]

\* os.Symlink(oldname, newname): newname must not exist, its parent must
Symlink(f, oldname, newname, euid, egid, now) ==
    LET q == Abs(newname)
    IN  IF q \in DOMAIN f \/ q.segs = <<>> \/ ~IsDir(f, Parent(q))
        THEN [err |-> TRUE, fs |-> f]
        ELSE [err |-> FALSE,
              fs |-> Touch(Put(f, q, Node("symlink", <<>>, 511, now, now,
                                           euid, egid, oldname)),
                           Parent(q), now)]

\* os.Link(oldname, newname): oldname must exist and be no directory,
\* newname must not exist; the new name shows the node of the old one
Link(f, oldname, newname, now) ==
    LET o == Abs(oldname)
        q == Abs(newname)
    IN  IF \/ o \notin DOMAIN f
           \/ f[o].kind = "dir"
           \/ q \in DOMAIN f
           \/ q.segs = <<>>
           \/ ~IsDir(f, Parent(q))
        THEN [err |-> TRUE, fs |-> f]
        ELSE [err |-> FALSE, fs |-> Touch(Put(f, q, f[o]), Parent(q), now)]

\* os.Chmod, os.Chtimes: allowed to the owner of the node and to root
MayChangeNode(f, path, euid) ==
    /\ Exists(f, path)
    /\ (euid = RootUid \/ f[Abs(path)].uid = euid)

\* os.Chown, os.Lchown: root may give a node away; its owner may only keep
\* it and give it to the owner's own group
MayChown(f, path, uid, gid, euid, egid) ==
    /\ Exists(f, path)
    /\ \/ euid = RootUid
       \/ (f[Abs(path)].uid = euid /\ uid = euid /\ gid = egid)

Chmod(f, path, mode, ok) ==
    IF ok /\ Exists(f, path) THEN [f EXCEPT ![Abs(path)].mode = mode] ELSE f

Chtimes(f, path, at, mt, ok) ==
    IF ok /\ Exists(f, path)
    THEN [f EXCEPT ![Abs(path)].at = at, ![Abs(path)].mt = mt]
    ELSE f

Chown(f, path, uid, gid, ok) ==
    IF ok /\ Exists(f, path)
    THEN [f EXCEPT ![Abs(path)].uid = uid, ![Abs(path)].gid = gid]
    ELSE f

-----------------------------------------------------------------------------
(* archive/tar: headers, the writer and the reader                         *)

\* Header.Typeflag
TypeReg == "0"
TypeRegA == "A"
TypeLink == "1"
TypeSymlink == "2"
TypeChar == "3"
TypeBlock == "4"
TypeDir == "5"
TypeFifo == "6"
TypeCont == "7"
TypeXGlobalHeader == "g"

\* Header.Format
FormatUnknown == "unknown"
FormatUSTAR == "ustar"
FormatPAX == "pax"

\* tar.FileInfoHeader(fi, link) for the node n named name: type, size,
\* permission bits and modification time of the node; where the platform
\* has a syscall.Stat_t (not on windows) also owner, group, access and
\* change time.  Header.Format is left unset.
FileInfoHeader(n, name, link, goos) ==
    [name |-> name,
     typeflag |-> IF n.kind = "dir" THEN TypeDir
                  ELSE IF n.kind = "symlink" THEN TypeSymlink ELSE TypeReg,
     mode |-> n.mode,
     size |-> IF n.kind = "file" THEN Len(n.data) ELSE 0,
     mt |-> n.mt,
     at |-> IF goos = "windows" THEN ZeroTime ELSE n.at,
     ct |-> IF goos = "windows" THEN ZeroTime ELSE n.ct,
     uid |-> IF goos = "windows" THEN RootUid ELSE n.uid,
     gid |-> IF goos = "windows" THEN RootUid ELSE n.gid,
     linkname |-> IF n.kind = "symlink" THEN link ELSE EmptyPath,
     format |-> FormatUnknown]

\* Time.Round(time.Second): to the nearest whole second, halves up
RoundToSecond(t) == ((t + 1) \div 2) * 2

\* a name or link name of at most 100 bytes fits the fixed USTAR fields
\* (longer names that split into prefix and name are not modelled)
FitsUSTAR(h) == StrLen(h.name) <= 100 /\ StrLen(h.linkname) <= 100

\* Writer.WriteHeader: what the header block on the wire says.  With
\* Format unset the modification time is rounded to the second, access and
\* change time are dropped, and the first format that can hold the header
\* is used (USTAR, then PAX); with FormatPAX all fields are kept.
WireHeader(h) ==
    IF h.format = FormatUnknown
    THEN [h EXCEPT !.mt = RoundToSecond(h.mt), !.at = ZeroTime, !.ct = ZeroTime,
                   !.format = IF FitsUSTAR(h) THEN FormatUSTAR ELSE FormatPAX]
    ELSE h

\* an entry of the stream: the header block as Reader.Next returns it, and
\* the payload bytes that follow it
Entry(h, payload) == [h |-> h, payload |-> payload]

\* tar.NewWriter(w): the entries written so far, the sticky error of the
\* writer, and whether the sink has taken every byte written to it
NewWriter == [entries |-> <<>>, err |-> FALSE]

-----------------------------------------------------------------------------
(* Create                                                                  *)

\* the names of the walked directories' entries in lexical order, the
\* order in which filepath.Walk visits them
NameOrder == <<"d", "f", "g", "l", "s">>
NameRank(name) == CHOOSE i \in 1..Len(NameOrder) : NameOrder[i] = name

Children(f, q) == {x \in DOMAIN f : x.segs # <<>> /\ Parent(x) = q}

RECURSIVE SortedByName(_)
SortedByName(S) ==
    IF S = {} THEN <<>>
    ELSE LET first == CHOOSE x \in S : \A y \in S :
                         NameRank(x.segs[Len(x.segs)]) <= NameRank(y.segs[Len(y.segs)])
         IN  <<first>> \o SortedByName(S \ {first})

RECURSIVE WalkFrom(_, _)
RECURSIVE WalkEach(_, _, _)
\* filepath.Walk(root, fn): the paths handed to fn, in order.  The root is
\* passed as given; an entry of a directory is passed as
\* filepath.Join(directory, name); directories are walked in lexical order
\* and symlinks are not followed.
WalkFrom(f, path) ==
    IF f[Abs(path)].kind # "dir" THEN <<path>>
    ELSE <<path>> \o WalkEach(f, path, SortedByName(Children(f, Abs(path))))
WalkEach(f, path, kids) ==
    IF kids = <<>> THEN <<>>
    ELSE LET name == P(FALSE, <<Head(kids).segs[Len(Head(kids).segs)]>>)
         IN  WalkFrom(f, Join(path, name)) \o WalkEach(f, path, Tail(kids))

Walk(f, root) == WalkFrom(f, root)

\* createSymlinkHeader(fi, path): a new header made from the file info
\* with the link target read by os.Readlink
createSymlinkHeader(n, path, goos) ==
    FileInfoHeader(n, Base(path), n.link, goos)

\* name resolution that gives the normalizer absolute paths as well
EntryNameRelativized(root, path, isRelativePath) ==
    IF isRelativePath /\ ~IsAbs(path) THEN [err |-> FALSE, name |-> path]
    ELSE relative(root, path)

\* the name writeToArchive gives the entry of path: [err, name]
EntryName(root, path, isRelativePath) ==
    IF IsAbs(path) THEN [err |-> FALSE, name |-> Abs(path)]
    ELSE IF isRelativePath THEN [err |-> FALSE, name |-> path]
    ELSE relative(root, path)

\* the header writeToArchive builds for node n at path before naming it
EntryHeader(n, path, preserveMetadata, goos) ==
    LET h == FileInfoHeader(n, Base(path), EmptyPath, goos)
        hp == IF ~preserveMetadata THEN h
              ELSE IF goos = "windows" THEN [h EXCEPT !.format = FormatPAX]
              ELSE [h EXCEPT !.format = FormatPAX, !.uid = n.uid, !.gid = n.gid,
                             !.at = n.mt, !.ct = n.mt]
    IN  IF n.kind = "symlink" THEN createSymlinkHeader(n, path, goos) ELSE hp

\* the callback that archives symlinks whatever skipSymlinks says
writeToArchiveSymlinksKept(f, path, tw, written, root, skipSymlinks, isRelativePath, preserveMetadata, goos, io) ==
    LET n == f[Abs(path)]
        nm == EntryName(root, path, isRelativePath)
        h == [EntryHeader(n, path, preserveMetadata, goos) EXCEPT !.name = nm.name]
        wh == WireHeader(h)
        got == SubSeq(n.data, 1, io.copied)
    IN  IF FALSE
        THEN [err |-> "nil", tw |-> tw, written |-> written]
        ELSE IF nm.err
        THEN [err |-> "relative name", tw |-> tw, written |-> written]
        ELSE IF tw.err \/ ~io.hdrOk
        THEN [err |-> "write header", tw |-> [tw EXCEPT !.err = TRUE],
              written |-> written]
        ELSE IF n.kind # "file"
        THEN [err |-> "nil",
              tw |-> [tw EXCEPT !.entries = Append(@, Entry(wh, <<>>))],
              written |-> written]
        ELSE IF ~io.copyOk
        THEN [err |-> "write file to archive",
              tw |-> [tw EXCEPT !.entries = Append(@, Entry(wh, got)),
                                !.err = TRUE],
              written |-> written]
        ELSE [err |-> "nil",
              tw |-> [tw EXCEPT !.entries = Append(@, Entry(wh, n.data))],
              written |-> written + Len(n.data)]

\* the callback writeToArchive returns, called by the walk for path.
\* io says what the streams do: hdrOk, whether the sink takes the header
\* block; copied, how many payload bytes io.Copy moves; copyOk, whether it
\* ends without error.  Result: the error (or "nil"), the writer, and the
\* byte count.
writeToArchive(f, path, tw, written, root, skipSymlinks, isRelativePath, preserveMetadata, goos, io) ==
    LET n == f[Abs(path)]
        nm == EntryName(root, path, isRelativePath)
        h == [EntryHeader(n, path, preserveMetadata, goos) EXCEPT !.name = nm.name]
        wh == WireHeader(h)
        got == SubSeq(n.data, 1, io.copied)
    IN  IF n.kind = "symlink" /\ skipSymlinks
        THEN [err |-> "nil", tw |-> tw, written |-> written]
        ELSE IF nm.err
        THEN [err |-> "relative name", tw |-> tw, written |-> written]
        ELSE IF tw.err \/ ~io.hdrOk
        THEN [err |-> "write header", tw |-> [tw EXCEPT !.err = TRUE],
              written |-> written]
        ELSE IF n.kind # "file"
        THEN [err |-> "nil",
              tw |-> [tw EXCEPT !.entries = Append(@, Entry(wh, <<>>))],
              written |-> written]
        ELSE IF ~io.copyOk
        THEN [err |-> "write file to archive",
              tw |-> [tw EXCEPT !.entries = Append(@, Entry(wh, got)),
                                !.err = TRUE],
              written |-> written]
        ELSE [err |-> "nil",
              tw |-> [tw EXCEPT !.entries = Append(@, Entry(wh, n.data))],
              written |-> written + Len(n.data)]

-----------------------------------------------------------------------------
(* The state                                                               *)

VARIABLES
    cfg,          \* the call's fixed inputs: platform, user, the Archive
                  \* values and the arguments of Create and Extract
    fs,           \* the file system
    pc,           \* where the program is
    srcIdx,       \* Create: the index of the source being walked
    queue,        \* Create: the paths the walk has still to hand to fn
    tw,           \* Create: the tar writer
    cwritten,     \* Create: written
    cerr,         \* Create: the error returned
    sink,         \* Create: what became of the bytes given to w
    archived,     \* Create: the paths whose headers tw has taken, in order
    stream,       \* Extract: the entries tr.Next has returned so far
    rerr,         \* Extract: the error the tar reader has reported
    xwritten,     \* Extract: written
    xerr,         \* Extract: the error returned
    xn,           \* Extract: the byte count returned
    xpath,        \* Extract: the path the error returned names
    dirMetadata,  \* Extract: the directory metadata kept for the flush
    dirs,         \* Extract: the flush order
    applied,      \* Extract: how many of dirs the flush has applied
    denied        \* Extract: the same call on a system that refuses every
                  \* chmod, chtimes and chown (its file system and results)

\* One call of the storage backend (Get, Put or Exists) and its worker
VARIABLES
    call,         \* the call: its operation and whether b.acl is set
    ctxDone,      \* ctx.Done() is closed
    worker,       \* the goroutine the call starts: its position, the
                  \* position after a pending send, the failures it reported
    ch,           \* errCh / resCh: the value a blocked sender holds, closed
    caller        \* the calling goroutine: its position, what it returned,
                  \* and what its select found ready when it chose

vars == <<cfg, fs, pc, srcIdx, queue, tw, cwritten, cerr, sink, archived,
          stream, rerr, xwritten, xerr, xn, xpath, dirMetadata, dirs, applied,
          denied, call, ctxDone, worker, ch, caller>>

createVars == <<srcIdx, queue, tw, cwritten, cerr, sink, archived>>
extractVars == <<stream, rerr, xwritten, xerr, xn, xpath, dirMetadata, dirs,
                 applied, denied>>
archiveVars == <<cfg, fs, pc, createVars, extractVars>>
backendVars == <<call, ctxDone, worker, ch, caller>>

\* What ctx.Err() returns once ctx.Done() is closed
ctxErr == "context canceled"

\* A value on the channel. Exists sends *result{val, err}; Get and Put send
\* an error, held in err with val FALSE. The zero value is what a receive
\* from the closed channel yields.
result(val, err) == [val |-> val, err |-> err]

\* make(chan error), make(chan *result): unbuffered, so a sender holds its
\* value until the receiver takes it
NewChan == [full |-> FALSE, value |-> result(FALSE, "nil"), closed |-> FALSE]

NoWorker == [at |-> 0, st |-> "idle", after |-> 0, failures |-> <<>>]

NotSelected == [pc |-> "idle", ret |-> result(FALSE, "nil"), done |-> FALSE, ready |-> FALSE]

\* No backend call is made while the archive is exercised
BackendIdle ==
    /\ call = [op |-> "none", acl |-> FALSE]
    /\ ctxDone = FALSE
    /\ worker = NoWorker
    /\ ch = NewChan
    /\ caller = NotSelected

R(segs) == P(FALSE, segs)
A(segs) == P(TRUE, segs)

\* The file system before the calls: a source tree d owned by the caller
\* (a read-only directory, a file with a sub-second modification time, a
\* symlink, a nested directory with a file), and a directory pre that
\* belongs to someone else and already holds d/f with more bytes.
World ==
    LET nodes ==
          { <<A(<<>>), Node("dir", <<>>, 493, 2, 2, RootUid, RootUid, EmptyPath)>>,
            <<A(<<"w">>), Node("dir", <<>>, 493, 2, 2, CallerUid, CallerUid, EmptyPath)>>,
            <<A(<<"w", "d">>), Node("dir", <<>>, 365, 4, 4, CallerUid, CallerUid, EmptyPath)>>,
            <<A(<<"w", "d", "f">>), Node("file", <<1, 2>>, 420, 3, 5, CallerUid, CallerUid, EmptyPath)>>,
            <<A(<<"w", "d", "l">>), Node("symlink", <<>>, 511, 6, 6, CallerUid, CallerUid, R(<<"f">>))>>,
            <<A(<<"w", "d", "s">>), Node("dir", <<>>, 493, 8, 8, CallerUid, CallerUid, EmptyPath)>>,
            <<A(<<"w", "d", "s", "g">>), Node("file", <<3>>, 420, 10, 10, OtherUid, OtherUid, EmptyPath)>>,
            <<A(<<"w", "pre">>), Node("dir", <<>>, 511, 2, 2, OtherUid, OtherUid, EmptyPath)>>,
            <<A(<<"w", "pre", "d">>), Node("dir", <<>>, 511, 2, 2, OtherUid, OtherUid, EmptyPath)>>,
            <<A(<<"w", "pre", "d", "f">>), Node("file", <<7, 7, 7>>, 438, 2, 2, OtherUid, OtherUid, EmptyPath)>> }
    IN  [q \in {x[1] : x \in nodes} |-> (CHOOSE x \in nodes : x[1] = q)[2]]

-----------------------------------------------------------------------------
(* Extract                                                                 *)

\* What the metadata calls of one entry do: whether os.Chmod, os.Chtimes
\* and os.Chown (os.Lchown) succeed.  With os set the operating system
\* decides by the owner of the node; otherwise the three outcomes are as
\* given (a permission denial, or its absence, whatever the owner).
Denied == [os |-> FALSE, chmod |-> FALSE, chtimes |-> FALSE, chown |-> FALSE]
ByOS == [os |-> TRUE, chmod |-> TRUE, chtimes |-> TRUE, chown |-> TRUE]

Outcome(m, f, target, uid, gid, euid) ==
    IF m.os
    THEN [chmod |-> MayChangeNode(f, target, euid),
          chtimes |-> MayChangeNode(f, target, euid),
          chown |-> MayChown(f, target, uid, gid, euid, euid)]
    ELSE [chmod |-> m.chmod, chtimes |-> m.chtimes, chown |-> m.chown]

\* the target of an entry named name under dst: [err, target]
Target(dst, name) ==
    LET Under(r) ==
            IF r.err THEN [err |-> TRUE, target |-> EmptyPath]
            ELSE [err |-> FALSE, target |-> Join(dst, r.name)]
    IN  IF dst = name \/ IsAbs(name) THEN [err |-> FALSE, target |-> name]
        ELSE Under(relative(dst, name))

\* the record with the two times in each other's place
DirMetaTimesSwapped(h) == [mode |-> h.mode, at |-> h.mt, mt |-> h.at, uid |-> h.uid, gid |-> h.gid]

\* the metadata record kept for a directory entry
DirMeta(h) == [mode |-> h.mode, at |-> h.at, mt |-> h.mt, uid |-> h.uid, gid |-> h.gid]

\* mode, times and owner applied to a restored file or hard link; the
\* access time falls back to the modification time when it is unset
ApplyFileMetadata(f, target, h, goos, euid, m) ==
    LET o == Outcome(m, f, target, h.uid, h.gid, euid)
        f1 == Chmod(f, target, h.mode, o.chmod)
        at == IF IsZero(h.at) THEN h.mt ELSE h.at
        f2 == Chtimes(f1, target, at, h.mt, o.chtimes)
    IN  IF goos # "windows" THEN Chown(f2, target, h.uid, h.gid, o.chown) ELSE f2

\* extractDir(h, target): [err, path, fs]
extractDir(f, h, target, euid, now) ==
    LET r == MkdirAll(f, target, h.mode, euid, euid, now)
    IN  [err |-> IF r.err THEN "create directory" ELSE "nil", path |-> target,
         fs |-> r.fs]

\* extractRegular that returns the error of os.Chmod
extractRegularChmodChecked(f, e, got, target, preserveMetadata, goos, euid, now, m) ==
    LET o == OpenFile(f, target, e.h.mode, euid, euid, now)
        f1 == WriteAtStart(o.fs, target, SubSeq(e.payload, 1, got), now)
    IN  IF o.err
        THEN [err |-> "open extracted file", path |-> target, n |-> 0, fs |-> f]
        ELSE IF got < Len(e.payload)
        THEN [err |-> "copy extracted file, unexpected EOF", path |-> target, n |-> got, fs |-> f1]
        ELSE IF preserveMetadata
                /\ ~Outcome(m, f1, target, e.h.uid, e.h.gid, euid).chmod
        THEN [err |-> "chmod", path |-> target, n |-> got, fs |-> f1]
        ELSE [err |-> "nil", path |-> target, n |-> got,
              fs |-> IF preserveMetadata
                     THEN ApplyFileMetadata(f1, target, e.h, goos, euid, m)
                     ELSE f1]

\* extractRegular that returns the count of a copy without error as zero
extractRegularUncounted(f, e, got, target, preserveMetadata, goos, euid, now, m) ==
    LET o == OpenFile(f, target, e.h.mode, euid, euid, now)
        f1 == WriteAtStart(o.fs, target, SubSeq(e.payload, 1, got), now)
    IN  IF o.err
        THEN [err |-> "open extracted file", path |-> target, n |-> 0, fs |-> f]
        ELSE IF got < Len(e.payload)
        THEN [err |-> "copy extracted file, unexpected EOF", path |-> target, n |-> got, fs |-> f1]
        ELSE [err |-> "nil", path |-> target, n |-> 0,
              fs |-> IF preserveMetadata
                     THEN ApplyFileMetadata(f1, target, e.h, goos, euid, m)
                     ELSE f1]

\* extractRegular(h, tr, target, preserveMetadata): [err, path, n, fs], path
\* being the path the error names.  The reader delivers the first got
\* bytes of the payload of e; when that is not all of them its Read fails
\* (io.ErrUnexpectedEOF) and io.Copy returns what it has written.
extractRegular(f, e, got, target, preserveMetadata, goos, euid, now, m) ==
    LET o == OpenFile(f, target, e.h.mode, euid, euid, now)
        f1 == WriteAtStart(o.fs, target, SubSeq(e.payload, 1, got), now)
    IN  IF o.err
        THEN [err |-> "open extracted file", path |-> target, n |-> 0, fs |-> f]
        ELSE IF got < Len(e.payload)
        THEN [err |-> "copy extracted file, unexpected EOF", path |-> target, n |-> got, fs |-> f1]
        ELSE [err |-> "nil", path |-> target, n |-> got,
              fs |-> IF preserveMetadata
                     THEN ApplyFileMetadata(f1, target, e.h, goos, euid, m)
                     ELSE f1]

\* extractSymlink that links to the name of the entry
extractSymlinkToName(f, h, target, preserveMetadata, goos, euid, now, m) ==
    LET u == unlink(f, target, now)
        l == Symlink(u.fs, h.name, target, euid, euid, now)
    IN  IF u.err THEN [err |-> "unlink", path |-> target, fs |-> f]
        ELSE IF l.err
        THEN [err |-> "create symbolic link", path |-> target, fs |-> u.fs]
        ELSE [err |-> "nil", path |-> target, fs |-> l.fs]

\* extractSymlink(h, target, preserveMetadata): [err, path, fs]
extractSymlink(f, h, target, preserveMetadata, goos, euid, now, m) ==
    LET u == unlink(f, target, now)
        l == Symlink(u.fs, h.linkname, target, euid, euid, now)
    IN  IF u.err THEN [err |-> "unlink", path |-> target, fs |-> f]
        ELSE IF l.err
        THEN [err |-> "create symbolic link", path |-> target, fs |-> u.fs]
        ELSE [err |-> "nil", path |-> target,
              fs |-> IF preserveMetadata /\ goos # "windows"
                     THEN Chown(l.fs, target, h.uid, h.gid,
                                Outcome(m, l.fs, target, h.uid, h.gid, euid).chown)
                     ELSE l.fs]

\* extractLink(h, target, preserveMetadata): [err, path, fs]
extractLink(f, h, target, preserveMetadata, goos, euid, now, m) ==
    LET u == unlink(f, target, now)
        l == Link(u.fs, h.linkname, target, now)
    IN  IF u.err THEN [err |-> "unlink", path |-> target, fs |-> f]
        ELSE IF l.err
        THEN [err |-> "create hard link", path |-> h.linkname, fs |-> u.fs]
        ELSE [err |-> "nil", path |-> target,
              fs |-> IF preserveMetadata
                     THEN ApplyFileMetadata(l.fs, target, h, goos, euid, m)
                     ELSE l.fs]

\* the type flags restored as a regular file, the contiguous file included
RegularTypesWithCont == {TypeReg, TypeRegA, TypeChar, TypeBlock, TypeFifo, TypeCont}

\* the type flags restored as a regular file
RegularTypes == {TypeReg, TypeRegA, TypeChar, TypeBlock, TypeFifo}

\* a directory whose metadata is kept for the flush made with its stored mode
PendingDirPermStored(h) == h.mode

\* the permission bits a directory whose metadata is kept for the flush is
\* made with: "Create the directory with default permissions for now"
PendingDirPerm(h) == defaultDirPermission

\* One turn of the loop of Extract for the entry e that tr.Next returned,
\* of whose payload the reader delivers the first got bytes.  Result:
\* returned (whether Extract returns), err, path and n (the error it
\* returns, the path that error names, the byte count it returns), and the
\* file system, the byte count and the directory metadata after the turn.
ExtractEntry(f, e, got, dst, preserveMetadata, goos, euid, written, dm, now, m) ==
    LET h == e.h
        Ret(err, path, n, f2, w2, dm2) ==
            [returned |-> TRUE, err |-> err, path |-> path, n |-> n, fs |-> f2,
             written |-> w2, dirMetadata |-> dm2]
        Go(f2, w2, dm2) ==
            [returned |-> FALSE, err |-> "nil", path |-> EmptyPath, n |-> w2,
             fs |-> f2, written |-> w2, dirMetadata |-> dm2]
        Kept(target) ==
            [x \in DOMAIN dm \cup {target} |->
                IF x = target THEN DirMeta(h) ELSE dm[x]]
        MadeDir(r, target, dm2) ==
            IF r.err THEN Ret("create directory", target, written, r.fs, written, dm2)
            ELSE Go(r.fs, written, dm2)
        Restored(r, wrap) ==
            IF r.err # "nil"
            THEN Ret(wrap \o r.err, r.path, written, r.fs, written, dm)
            ELSE Go(r.fs, written, dm)
        Copied(r) ==
            IF r.err # "nil"
            THEN Ret("extract regular file, " \o r.err, r.path, written + r.n,
                     r.fs, written + r.n, dm)
            ELSE Go(r.fs, written + r.n, dm)
        In(target, par) ==
            IF par.err THEN Ret("ensure directory", target, 0, f, written, dm)
            ELSE IF h.typeflag = TypeDir
            THEN IF preserveMetadata
                 THEN MadeDir(MkdirAll(par.fs, target, PendingDirPerm(h),
                                       euid, euid, now),
                              target, Kept(target))
                 ELSE Restored(extractDir(par.fs, h, target, euid, now), "")
            ELSE IF h.typeflag \in RegularTypes
            THEN Copied(extractRegular(par.fs, e, got, target, preserveMetadata,
                                       goos, euid, now, m))
            ELSE IF h.typeflag = TypeSymlink
            THEN Restored(extractSymlink(par.fs, h, target, preserveMetadata,
                                         goos, euid, now, m),
                          "extract symbolic link, ")
            ELSE IF h.typeflag = TypeLink
            THEN Restored(extractLink(par.fs, h, target, preserveMetadata,
                                      goos, euid, now, m),
                          "extract link, ")
            ELSE IF h.typeflag = TypeXGlobalHeader
            THEN Go(par.fs, written, dm)
            ELSE Ret("unknown type flag", target, written, par.fs, written, dm)
        At(t) ==
            IF t.err THEN Ret("relative name", EmptyPath, 0, f, written, dm)
            ELSE In(t.target,
                    MkdirAll(f, Dir(t.target), defaultDirPermission, euid, euid, now))
    IN  At(Target(dst, h.name))

\* a swap that forgets the element it moves down
SwapLosesOne(ds, i, j) == [ds EXCEPT ![i] = ds[j]]

\* the flush order: the keys of the map in the order the range loop met
\* them (any order), sorted by the two nested loops that swap dirs[i] and
\* dirs[j] whenever len(dirs[i]) < len(dirs[j])
Swap(ds, i, j) == [ds EXCEPT ![i] = ds[j], ![j] = ds[i]]

RECURSIVE SortInner(_, _, _)
SortInner(ds, i, j) ==
    IF j > Len(ds) THEN ds
    ELSE SortInner(IF StrLen(ds[i]) < StrLen(ds[j]) THEN Swap(ds, i, j) ELSE ds,
                   i, j + 1)

RECURSIVE SortOuter(_, _)
SortOuter(ds, i) ==
    IF i > Len(ds) THEN ds ELSE SortOuter(SortInner(ds, i, i + 1), i + 1)

SortByLength(ds) == SortOuter(ds, 1)

\* the orders in which a range loop may meet the keys of a map
RangeOrders(S) ==
    {q \in [1..Cardinality(S) -> S] : \A i, j \in 1..Cardinality(S) : q[i] = q[j] => i = j}

\* the flush with the two times given to os.Chtimes in the wrong order
ApplyDirMetadataTimesSwapped(f, dir, meta, goos, euid, m) ==
    LET o == Outcome(m, f, dir, meta.uid, meta.gid, euid)
        f1 == Chmod(f, dir, meta.mode, o.chmod)
        f2 == Chtimes(f1, dir, meta.mt, meta.at, o.chtimes)
    IN  IF goos # "windows" THEN Chown(f2, dir, meta.uid, meta.gid, o.chown) ELSE f2

\* the metadata of the directory dir applied by the flush
ApplyDirMetadata(f, dir, meta, goos, euid, m) ==
    LET o == Outcome(m, f, dir, meta.uid, meta.gid, euid)
        f1 == Chmod(f, dir, meta.mode, o.chmod)
        f2 == Chtimes(f1, dir, meta.at, meta.mt, o.chtimes)
    IN  IF goos # "windows" THEN Chown(f2, dir, meta.uid, meta.gid, o.chown) ELSE f2

-----------------------------------------------------------------------------
(* The inputs                                                              *)

\* the longest stream of entries not written by Create that is extracted
MaxEntries == 3

Hdr(name, typeflag, mode, size, mt, at, uid, linkname, format) ==
    [name |-> name, typeflag |-> typeflag, mode |-> mode, size |-> size,
     mt |-> mt, at |-> at, ct |-> at, uid |-> uid, gid |-> uid,
     linkname |-> linkname, format |-> format]

\* the entries of streams that another tar writer made
ForeignEntries ==
    { Entry(Hdr(R(<<"a">>), TypeDir, 365, 0, 12, ZeroTime, CallerUid, EmptyPath, FormatUSTAR), <<>>),
      Entry(Hdr(R(<<"a", "b">>), TypeDir, 493, 0, 14, 15, CallerUid, EmptyPath, FormatPAX), <<>>),
      Entry(Hdr(R(<<"a", "b", "c">>), TypeDir, 448, 0, 16, ZeroTime, OtherUid, EmptyPath, FormatUSTAR), <<>>),
      Entry(Hdr(R(<<"long">>), TypeDir, 493, 0, 18, 19, CallerUid, EmptyPath, FormatPAX), <<>>),
      Entry(Hdr(A(<<"w", "out", "a">>), TypeDir, 493, 0, 20, 21, CallerUid, EmptyPath, FormatPAX), <<>>),
      Entry(Hdr(R(<<"d">>), TypeDir, 493, 0, 22, 23, CallerUid, EmptyPath, FormatPAX), <<>>),
      Entry(Hdr(R(<<"a", "f">>), TypeReg, 420, 2, 13, ZeroTime, OtherUid, EmptyPath, FormatUSTAR), <<1, 2>>),
      Entry(Hdr(R(<<"d", "f">>), TypeReg, 384, 1, 24, 25, CallerUid, EmptyPath, FormatPAX), <<5>>),
      Entry(Hdr(R(<<"a", "l">>), TypeSymlink, 511, 0, 26, ZeroTime, OtherUid, R(<<"f">>), FormatUSTAR), <<>>),
      Entry(Hdr(R(<<"a", "h">>), TypeLink, 420, 0, 28, ZeroTime, CallerUid, R(<<"d", "f">>), FormatUSTAR), <<>>),
      Entry(Hdr(R(<<"pax_global_header">>), TypeXGlobalHeader, 420, 0, 30, ZeroTime, RootUid, EmptyPath, FormatPAX), <<>>),
      Entry(Hdr(R(<<"a", "f", "x">>), TypeCont, 420, 0, 32, ZeroTime, CallerUid, EmptyPath, FormatUSTAR), <<>>) }

\* directory entries whose absolute names are written differently and name
\* one directory: "/w/out/a/" and "/w/out//a" (nine bytes each) with
\* different modes and times, and two entries named "/w/out/a/b" that
\* differ in mode and times
AliasEntries ==
    { Entry(Hdr(A(<<"w", "out", "a", "">>), TypeDir, 493, 0, 12, 13, CallerUid, EmptyPath, FormatPAX), <<>>),
      Entry(Hdr(A(<<"w", "out", "", "a">>), TypeDir, 448, 0, 14, 15, CallerUid, EmptyPath, FormatPAX), <<>>),
      Entry(Hdr(A(<<"w", "out", "a", "b">>), TypeDir, 493, 0, 16, 17, CallerUid, EmptyPath, FormatPAX), <<>>),
      Entry(Hdr(A(<<"w", "out", "a", "b">>), TypeDir, 448, 0, 18, 19, CallerUid, EmptyPath, FormatPAX), <<>>) }

SetMax(S) == CHOOSE x \in S : \A y \in S : y <= x

\* the present instant: later than every time stored in a node or a header
Now ==
    1 + SetMax({World[q].mt : q \in DOMAIN World}
               \cup {World[q].at : q \in DOMAIN World}
               \cup {e.h.mt : e \in ForeignEntries}
               \cup {e.h.at : e \in ForeignEntries})

\* the source lists given to Create
SrcChoices ==
    { <<R(<<"d">>)>>,
      <<A(<<"w", "d">>)>>,
      <<R(<<"d", "s">>), R(<<"d", "f">>)>>,
      <<A(<<"w", "d">>), R(<<"d", "s">>)>>,
      <<R(<<"nope">>), R(<<"d">>)>>,
      <<R(<<"d", "f">>), R(<<"nope">>), R(<<"d", "s">>)>> }

\* the roots of the creating Archive
RootChoices == {DotPath, R(<<"d", "s">>), A(<<"w">>)}

\* the destinations given to Extract
DstChoices == {R(<<"out">>), R(<<"pre">>), A(<<"w", "out">>), DotPath}

Config(scenario, goos, euid, root, skipSymlinks, createPreserve, extractPreserve, srcs, isRelativePath, dst) ==
    [scenario |-> scenario, goos |-> goos, euid |-> euid, root |-> root,
     skipSymlinks |-> skipSymlinks, createPreserve |-> createPreserve,
     extractPreserve |-> extractPreserve, srcs |-> srcs,
     isRelativePath |-> isRelativePath, dst |-> dst]

\* Create then Extract of what it wrote
RoundTrips ==
    { Config("roundtrip", goos, euid, root, skip, cp, xp, srcs, rel, dst) :
        goos \in {"linux", "windows"}, euid \in {RootUid, CallerUid},
        root \in RootChoices, skip \in BOOLEAN, cp \in BOOLEAN, xp \in BOOLEAN,
        srcs \in SrcChoices, rel \in BOOLEAN, dst \in DstChoices }

\* Extract of a stream from elsewhere: by root and by the caller on linux,
\* by root on windows
Foreigns ==
    { Config("foreign", who[1], who[2], DotPath, FALSE, FALSE, xp, <<>>, FALSE, dst) :
        who \in {<<"linux", RootUid>>, <<"linux", CallerUid>>, <<"windows", RootUid>>},
        xp \in BOOLEAN, dst \in DstChoices }

\* Extract, with preserveMetadata, of a stream from elsewhere that names a
\* directory in more than one way
Aliased ==
    { Config("aliased", "linux", euid, DotPath, FALSE, FALSE, TRUE, <<>>, FALSE, R(<<"out">>)) :
        euid \in {RootUid, CallerUid} }

-----------------------------------------------------------------------------
(* The calls                                                               *)

NoMeta == [q \in {} |-> 0]

Init ==
    /\ cfg \in RoundTrips \cup Foreigns \cup Aliased
    /\ fs = World
    /\ pc = IF cfg.scenario = "roundtrip" THEN "create" ELSE "extract"
    /\ srcIdx = 1
    /\ queue = <<>>
    /\ tw = NewWriter
    /\ cwritten = 0
    /\ cerr = "nil"
    /\ sink = [rejected |-> FALSE, trailer |-> FALSE]
    /\ archived = <<>>
    /\ stream = <<>>
    /\ rerr = "nil"
    /\ xwritten = 0
    /\ xerr = "nil"
    /\ xn = 0
    /\ xpath = EmptyPath
    /\ dirMetadata = NoMeta
    /\ dirs = <<>>
    /\ applied = 0
    /\ denied = [fs |-> World, written |-> 0, err |-> "nil", n |-> 0,
                 dirMetadata |-> NoMeta]
    /\ BackendIdle

\* the head of the loop where a source that os.Lstat does not find is
\* passed over
CreateSourceSkipsMissing ==
    /\ pc = "create"
    /\ srcIdx <= Len(cfg.srcs)
    /\ IF Exists(fs, cfg.srcs[srcIdx])
       THEN /\ queue' = Walk(fs, cfg.srcs[srcIdx])
            /\ pc' = "walk"
            /\ srcIdx' = srcIdx
       ELSE /\ queue' = queue
            /\ pc' = pc
            /\ srcIdx' = srcIdx + 1
    /\ UNCHANGED <<cfg, fs, tw, cwritten, cerr, sink, archived>>
    /\ UNCHANGED extractVars
    /\ UNCHANGED backendVars

\* Create, head of the loop over srcs: os.Lstat(src), then the walk begins
CreateSource ==
    /\ pc = "create"
    /\ srcIdx <= Len(cfg.srcs)
    /\ IF Exists(fs, cfg.srcs[srcIdx])
       THEN /\ queue' = Walk(fs, cfg.srcs[srcIdx])
            /\ pc' = "walk"
            /\ cerr' = cerr
       ELSE /\ cerr' = "make sure file or directory readable, " \o ErrSourceNotReachable
            /\ pc' = "return"
            /\ queue' = queue
    /\ UNCHANGED <<cfg, fs, srcIdx, tw, cwritten, sink, archived>>
    /\ UNCHANGED extractVars
    /\ UNCHANGED backendVars

\* what the streams may do during one call of the callback for node n
WalkIO(n) ==
    {[hdrOk |-> TRUE, copyOk |-> TRUE, copied |-> Len(n.data)],
     [hdrOk |-> FALSE, copyOk |-> TRUE, copied |-> 0]}
    \cup {[hdrOk |-> TRUE, copyOk |-> FALSE, copied |-> k] : k \in 0..(Len(n.data) - 1)}

\* Create, the walk calls the callback for the next path; an error of the
\* callback ends the walk and Create
WalkFn ==
    /\ pc = "walk"
    /\ queue # <<>>
    /\ \E io \in WalkIO(fs[Abs(Head(queue))]) :
         LET r == writeToArchive(fs, Head(queue), tw, cwritten, cfg.root,
                                 cfg.skipSymlinks, cfg.isRelativePath,
                                 cfg.createPreserve, cfg.goos, io)
         IN  /\ tw' = r.tw
             /\ cwritten' = r.written
             /\ sink' = [sink EXCEPT !.rejected = @ \/ ~io.hdrOk \/ ~io.copyOk]
             /\ archived' = IF Len(r.tw.entries) > Len(tw.entries)
                            THEN Append(archived, Head(queue))
                            ELSE archived
             /\ IF r.err = "nil"
                THEN /\ queue' = Tail(queue)
                     /\ cerr' = cerr
                     /\ pc' = pc
                ELSE /\ queue' = queue
                     /\ cerr' = "walk: " \o r.err
                     /\ pc' = "return"
    /\ UNCHANGED <<cfg, fs, srcIdx>>
    /\ UNCHANGED extractVars
    /\ UNCHANGED backendVars

\* Create, the walk of a source is over: on to the next source
WalkDone ==
    /\ pc = "walk"
    /\ queue = <<>>
    /\ srcIdx' = srcIdx + 1
    /\ pc' = "create"
    /\ UNCHANGED <<cfg, fs, queue, tw, cwritten, cerr, sink, archived>>
    /\ UNCHANGED extractVars
    /\ UNCHANGED backendVars

\* Create, past the last source: return written, nil
CreateEnd ==
    /\ pc = "create"
    /\ srcIdx > Len(cfg.srcs)
    /\ pc' = "return"
    /\ UNCHANGED <<cfg, fs, srcIdx, queue, tw, cwritten, cerr, sink, archived>>
    /\ UNCHANGED extractVars
    /\ UNCHANGED backendVars

\* Create returns: the deferred internal.CloseWithErrLogf closes the tar
\* writer, which writes the trailer to the sink; the error of Close is
\* logged and the values given to return stay as they are
CreateReturn ==
    /\ pc = "return"
    /\ \E closeOk \in BOOLEAN :
         /\ sink' = [rejected |-> sink.rejected \/ tw.err \/ ~closeOk,
                     trailer |-> ~tw.err /\ closeOk]
         /\ tw' = [tw EXCEPT !.err = @ \/ ~closeOk]
    /\ pc' = IF cerr = "nil" /\ sink'.trailer THEN "extract" ELSE "done"
    /\ UNCHANGED <<cfg, fs, srcIdx, queue, cwritten, cerr, archived>>
    /\ UNCHANGED extractVars
    /\ UNCHANGED backendVars

\* the entries tr.Next can return next: what Create wrote, in order, or
\* any entry of a stream from elsewhere, up to MaxEntries
NextEntries ==
    IF cfg.scenario = "roundtrip"
    THEN IF Len(stream) < Len(tw.entries) THEN {tw.entries[Len(stream) + 1]} ELSE {}
    ELSE IF Len(stream) >= MaxEntries THEN {}
    ELSE IF cfg.scenario = "foreign" THEN ForeignEntries ELSE AliasEntries

\* whether tr.Next can return io.EOF now
AtEOF ==
    IF cfg.scenario = "roundtrip" THEN Len(stream) = Len(tw.entries) ELSE TRUE

\* how many bytes of the payload of e the reader may deliver: all of them,
\* or fewer when the stream ends or is damaged inside the payload
Reads(e) == 0..Len(e.payload)

\* what one turn of the loop of Extract does with entry e
Turn(e, got) ==
    ExtractEntry(fs, e, got, cfg.dst, cfg.extractPreserve, cfg.goos, cfg.euid,
                 xwritten, dirMetadata, Now, ByOS)

\* the same turn where every metadata call is refused
DeniedTurn(e, got) ==
    ExtractEntry(denied.fs, e, got, cfg.dst, cfg.extractPreserve, cfg.goos,
                 cfg.euid, denied.written, denied.dirMetadata, Now, Denied)

\* Extract, tr.Next returns a header: one turn of the loop
ExtractNext ==
    /\ pc = "extract"
    /\ \E e \in NextEntries : \E got \in Reads(e) :
       \E r \in {Turn(e, got)}, d \in {DeniedTurn(e, got)} :
         /\ denied' = [fs |-> d.fs, written |-> d.written,
                       err |-> d.err, n |-> IF d.returned THEN d.n ELSE denied.n,
                       dirMetadata |-> d.dirMetadata]
         /\ stream' = Append(stream, e)
         /\ rerr' = IF r.err = "extract regular file, copy extracted file, unexpected EOF"
                    THEN "unexpected EOF" ELSE rerr
         /\ fs' = r.fs
         /\ xwritten' = r.written
         /\ dirMetadata' = r.dirMetadata
         /\ pc' = IF r.returned THEN "done" ELSE pc
         /\ xerr' = IF r.returned THEN r.err ELSE xerr
         /\ xn' = IF r.returned THEN r.n ELSE xn
         /\ xpath' = IF r.returned THEN r.path ELSE xpath
    /\ UNCHANGED <<cfg, dirs, applied>>
    /\ UNCHANGED createVars
    /\ UNCHANGED backendVars

\* Extract, tr.Next returns an error that is not io.EOF (the stream ends
\* inside a header block or the block is damaged): return written and the
\* error wrapping ErrArchiveNotReadable.  The block that fails counts as
\* one of the MaxEntries header blocks of a stream from elsewhere.
ExtractReadError ==
    /\ pc = "extract"
    /\ cfg.scenario # "roundtrip" => Len(stream) < MaxEntries
    /\ rerr' = "invalid tar header"
    /\ xerr' = "tar reader, " \o ErrArchiveNotReadable
    /\ xn' = xwritten
    /\ xpath' = EmptyPath
    /\ denied' = [denied EXCEPT !.err = "tar reader, " \o ErrArchiveNotReadable,
                                !.n = denied.written]
    /\ pc' = "done"
    /\ UNCHANGED <<cfg, fs, stream, xwritten, dirMetadata, dirs, applied>>
    /\ UNCHANGED createVars
    /\ UNCHANGED backendVars

\* Extract, tr.Next returns io.EOF: with preserveMetadata the keys of
\* dirMetadata are collected and sorted for the flush; without it Extract
\* returns written, nil
ExtractEOF ==
    /\ pc = "extract"
    /\ AtEOF
    /\ IF cfg.extractPreserve
       THEN /\ \E order \in RangeOrders(DOMAIN dirMetadata) :
                 dirs' = SortByLength(order)
            /\ pc' = "flush"
            /\ xn' = xn
       ELSE /\ dirs' = dirs
            /\ pc' = "done"
            /\ xn' = xwritten
    /\ denied' = IF cfg.extractPreserve THEN denied
                 ELSE [denied EXCEPT !.n = denied.written]
    /\ UNCHANGED <<cfg, fs, stream, rerr, xwritten, xerr, xpath, dirMetadata, applied>>
    /\ UNCHANGED createVars
    /\ UNCHANGED backendVars

\* Extract, the flush applies the metadata kept for the next directory
FlushApply ==
    /\ pc = "flush"
    /\ applied < Len(dirs)
    /\ fs' = ApplyDirMetadata(fs, dirs[applied + 1], dirMetadata[dirs[applied + 1]],
                              cfg.goos, cfg.euid, ByOS)
    /\ denied' = [denied EXCEPT !.fs =
                     ApplyDirMetadata(denied.fs, dirs[applied + 1],
                                      denied.dirMetadata[dirs[applied + 1]],
                                      cfg.goos, cfg.euid, Denied)]
    /\ applied' = applied + 1
    /\ UNCHANGED <<cfg, pc, stream, rerr, xwritten, xerr, xn, xpath, dirMetadata, dirs>>
    /\ UNCHANGED createVars
    /\ UNCHANGED backendVars

\* Extract, the flush is over: return written, nil
ExtractReturn ==
    /\ pc = "flush"
    /\ applied = Len(dirs)
    /\ pc' = "done"
    /\ xn' = xwritten
    /\ denied' = [denied EXCEPT !.n = denied.written]
    /\ UNCHANGED <<cfg, fs, stream, rerr, xwritten, xerr, xpath, dirMetadata, dirs, applied>>
    /\ UNCHANGED createVars
    /\ UNCHANGED backendVars

Next ==
    \/ CreateSource
    \/ WalkFn
    \/ WalkDone
    \/ CreateEnd
    \/ CreateReturn
    \/ ExtractNext
    \/ ExtractReadError
    \/ ExtractEOF
    \/ FlushApply
    \/ ExtractReturn

Spec == Init /\ [][Next]_vars

-----------------------------------------------------------------------------
(* The storage backend: Get, Put and Exists race a worker goroutine         *)
(* against the context                                                      *)

Calls == [op : {"Get", "Put", "Exists"}, acl : BOOLEAN]

\* The calls the worker makes, in order, each named by the message its
\* failure is wrapped in
Steps(c) == CASE c.op = "Get" -> <<"get the object", "copy the object">> [] c.op = "Put" -> <<"copy the object", "close the object">> \o (IF c.acl THEN <<"set ACL of the object">> ELSE <<>>) [] OTHER -> <<"get the object attrs">>

\* The position of the deferred close(errCh)
End(c) == Len(Steps(c)) + 1

\* Where the worker goes on once its send was received: Get and Exists
\* return, Put goes on with its next call
AfterFailure(c, i) == IF c.op = "Put" THEN i + 1 ELSE End(c)

\* The archive is not exercised while a backend call is
ArchiveIdle ==
    /\ cfg \in {CHOOSE c \in Foreigns : TRUE}
    /\ fs = World
    /\ pc = "done"
    /\ srcIdx = 1
    /\ queue = <<>>
    /\ tw = NewWriter
    /\ cwritten = 0
    /\ cerr = "nil"
    /\ sink = [rejected |-> FALSE, trailer |-> FALSE]
    /\ archived = <<>>
    /\ stream = <<>>
    /\ rerr = "nil"
    /\ xwritten = 0
    /\ xerr = "nil"
    /\ xn = 0
    /\ xpath = EmptyPath
    /\ dirMetadata = NoMeta
    /\ dirs = <<>>
    /\ applied = 0
    /\ denied = [fs |-> World, written |-> 0, err |-> "nil", n |-> 0,
                 dirMetadata |-> NoMeta]

InitBackend ==
    /\ ArchiveIdle
    /\ call \in Calls
    /\ ctxDone = FALSE
    /\ worker = NoWorker
    /\ ch = NewChan
    /\ caller = [NotSelected EXCEPT !.pc = "call"]

\* The owner of ctx cancels it, or its deadline passes: before the call,
\* during it or after it
Cancel ==
    /\ ~ctxDone
    /\ ctxDone' = TRUE
    /\ UNCHANGED <<call, worker, ch, caller>>
    /\ UNCHANGED archiveVars

\* go func() { ... }(): the call starts its worker and goes to its select
GoWorker ==
    /\ caller.pc = "call"
    /\ caller' = [caller EXCEPT !.pc = "select"]
    /\ worker' = [worker EXCEPT !.at = 1, !.st = "run"]
    /\ UNCHANGED <<call, ctxDone, ch>>
    /\ UNCHANGED archiveVars

\* errCh <- v: the worker blocks with v until the caller receives it
Send(v, after, failed) ==
    /\ ch' = [ch EXCEPT !.full = TRUE, !.value = v]
    /\ worker' = [worker EXCEPT !.st = "send", !.after = after, !.failures = @ \o failed]

\* A call of the worker succeeds. Exists sends what it found.
WorkerOk ==
    /\ worker.st = "run"
    /\ worker.at \in 1..Len(Steps(call))
    /\ IF call.op = "Exists"
         THEN \E val \in BOOLEAN : Send(result(val, "nil"), End(call), <<>>)
         ELSE /\ worker' = [worker EXCEPT !.at = @ + 1]
              /\ ch' = ch
    /\ UNCHANGED <<call, ctxDone, caller>>
    /\ UNCHANGED archiveVars

\* A call of the worker fails (for one, because ctx is done): the worker
\* sends the wrapped error
WorkerFail ==
    /\ worker.st = "run"
    /\ worker.at \in 1..Len(Steps(call))
    /\ Send(result(FALSE, Steps(call)[worker.at]), AfterFailure(call, worker.at), <<Steps(call)[worker.at]>>)
    /\ UNCHANGED <<call, ctxDone, caller>>
    /\ UNCHANGED archiveVars

\* The worker returns: defer close(errCh)
WorkerReturn ==
    /\ worker.st = "run"
    /\ worker.at = End(call)
    /\ worker' = [worker EXCEPT !.st = "exited"]
    /\ ch' = [ch EXCEPT !.closed = TRUE]
    /\ UNCHANGED <<call, ctxDone, caller>>
    /\ UNCHANGED archiveVars

Ready == ch.full \/ ch.closed

\* case err := <-errCh: return err. The receive takes the value a blocked
\* sender holds and lets the sender go on, or yields the zero value of the
\* closed channel.
SelectResult ==
    /\ caller.pc = "select"
    /\ Ready
    /\ caller' = [pc |-> "returned", ret |-> IF ch.full THEN ch.value ELSE result(FALSE, "nil"), done |-> ctxDone, ready |-> TRUE]
    /\ IF ch.full
         THEN /\ ch' = [ch EXCEPT !.full = FALSE]
              /\ worker' = [worker EXCEPT !.st = "run", !.at = worker.after]
         ELSE UNCHANGED <<ch, worker>>
    /\ UNCHANGED <<call, ctxDone>>
    /\ UNCHANGED archiveVars

\* The select takes a case without asking whether it is ready
SelectDoneUnguarded ==
    /\ caller.pc = "select"
    /\ caller' = [pc |-> "returned", ret |-> result(FALSE, ctxErr), done |-> ctxDone, ready |-> Ready]
    /\ UNCHANGED <<call, ctxDone, worker, ch>>
    /\ UNCHANGED archiveVars

\* case <-ctx.Done(): return ctx.Err() (Exists: return false, ctx.Err()).
\* When both cases are ready the select takes either.
SelectDone ==
    /\ caller.pc = "select"
    /\ ctxDone
    /\ caller' = [pc |-> "returned", ret |-> result(FALSE, ctxErr), done |-> TRUE, ready |-> Ready]
    /\ UNCHANGED <<call, ctxDone, worker, ch>>
    /\ UNCHANGED archiveVars

NextBackend ==
    \/ Cancel
    \/ GoWorker
    \/ WorkerOk
    \/ WorkerFail
    \/ WorkerReturn
    \/ SelectResult
    \/ SelectDone

SpecBackend == InitBackend /\ [][NextBackend]_vars

-----------------------------------------------------------------------------
(* What the state says about the calls                                     *)

\* Extract was called and has returned
ExtractReturned ==
    /\ pc = "done"
    /\ cfg.scenario = "roundtrip" => cerr = "nil" /\ sink.trailer

\* Extract has returned written, nil
ExtractSucceeded == ExtractReturned /\ xerr = "nil"

\* where Extract puts the entry e
TargetOf(e) == Abs(Target(cfg.dst, e.h.name).target)

\* the node that Create archived as its i-th entry
Source(i) == World[Abs(archived[i])]

\* q is the directory dir or lies below it
Inside(dir, q) == Abs(q) = Abs(dir) \/ IsAncestor(Abs(dir), Abs(q))

\* what a file system holds apart from modes, times and owners
Content(f) ==
    [q \in DOMAIN f |-> [kind |-> f[q].kind, data |-> f[q].data, link |-> f[q].link]]

-----------------------------------------------------------------------------
(* C1 *)

\* C1: after Create on a tree of regular files and directories and Extract
\* of the archive it wrote, each archived file is restored with the bytes of
\* its source, each directory as a directory, and each entry of an archived
\* directory lies in the restored directory, with preserveMetadata on or off.
C1_RoundTripContent ==
    (/\ cfg.scenario = "roundtrip"
     /\ ExtractSucceeded
     /\ \A i \in 1..Len(archived) : Source(i).kind # "symlink")
    => \A i \in 1..Len(archived) :
         LET t == TargetOf(tw.entries[i])
         IN  /\ t \in DOMAIN fs
             /\ fs[t].kind = Source(i).kind
             /\ Source(i).kind = "file" => fs[t].data = Source(i).data
             /\ \A j \in 1..Len(archived) :
                  (archived[j] # archived[i] /\ Dir(archived[j]) = archived[i])
                  => Parent(TargetOf(tw.entries[j])) = t

-----------------------------------------------------------------------------
(* C2 *)

\* C2: after Create and Extract, both with preserveMetadata, into a
\* destination that did not exist, each archived regular file is restored
\* below the destination with the mode and the modification time of its
\* source.
C2_RoundTripMetadata ==
    (/\ cfg.scenario = "roundtrip"
     /\ ExtractSucceeded
     /\ cfg.createPreserve /\ cfg.extractPreserve
     /\ Abs(cfg.dst) \notin DOMAIN World)
    => \A i \in 1..Len(archived) :
         Source(i).kind = "file"
         => LET t == TargetOf(tw.entries[i])
            IN  /\ IsAncestor(Abs(cfg.dst), t)
                /\ t \in DOMAIN fs
                /\ fs[t].kind = "file"
                /\ fs[t].mode = Source(i).mode
                /\ fs[t].mt = Source(i).mt

-----------------------------------------------------------------------------
(* C3 *)

\* the i-th entry read is a directory entry and no other directory entry
\* read is restored to the same directory
OnlyEntryOfItsDir(i) ==
    /\ stream[i].h.typeflag = TypeDir
    /\ \A j \in 1..Len(stream) :
         (j # i /\ stream[j].h.typeflag = TypeDir)
         => TargetOf(stream[j]) # TargetOf(stream[i])

\* C3 as stated: after Extract with preserveMetadata has returned nil, each
\* directory restored from its one entry has the modification time stored in
\* that entry.
C3_DirTimesAsStated ==
    (ExtractSucceeded /\ cfg.extractPreserve)
    => \A i \in 1..Len(stream) :
         OnlyEntryOfItsDir(i)
         => fs[TargetOf(stream[i])].mt = stream[i].h.mt

\* C3: after Extract with preserveMetadata has returned nil, each directory
\* restored from its one entry, if the caller may change it (the caller owns
\* it or is root), has the modification time stored in that entry whatever
\* was created in it during the extraction.
C3_DirTimesRestored ==
    (ExtractSucceeded /\ cfg.extractPreserve)
    => \A i \in 1..Len(stream) :
         (OnlyEntryOfItsDir(i) /\ MayChangeNode(fs, TargetOf(stream[i]), cfg.euid))
         => fs[TargetOf(stream[i])].mt = stream[i].h.mt

\* a/, a/b/ and a/b/c/ read from one stream, a/ first, by a caller who is
\* not root, and restored with three different times
C3_NestedDirsRestored ==
    /\ ExtractSucceeded /\ cfg.extractPreserve
    /\ cfg.euid = CallerUid
    /\ cfg.dst = R(<<"out">>)
    /\ Len(stream) = 3
    /\ stream[1].h.name = R(<<"a">>)
    /\ stream[2].h.name = R(<<"a", "b">>)
    /\ stream[3].h.name = R(<<"a", "b", "c">>)
    /\ fs[A(<<"w", "out", "a">>)].mt = stream[1].h.mt
    /\ fs[A(<<"w", "out", "a", "b">>)].mt = stream[2].h.mt
    /\ fs[A(<<"w", "out", "a", "b", "c">>)].mt = stream[3].h.mt
    /\ stream[1].h.mt # stream[2].h.mt /\ stream[2].h.mt # stream[3].h.mt

-----------------------------------------------------------------------------
(* C4 *)

\* C4: in the flush order no directory comes before a directory nested
\* inside it.
C4_DescendantBeforeAncestor ==
    pc = "flush"
    => \A i, j \in 1..Len(dirs) :
         IsAncestor(Abs(dirs[i]), Abs(dirs[j])) => j < i

-----------------------------------------------------------------------------
(* C5 *)

\* the number of components of a path
Depth(p) == Len(p.segs)

\* C5: in the flush order a directory with more path components comes
\* before every directory with fewer.
C5_DeepestFirst ==
    pc = "flush"
    => \A i, j \in 1..Len(dirs) :
         Depth(dirs[i]) > Depth(dirs[j]) => i < j

-----------------------------------------------------------------------------
(* C6 *)

\* C6: a header written by Create is in the PAX format exactly when
\* preserveMetadata is on, whatever the kind of the entry.
C6_FormatSwitch ==
    \A i \in 1..Len(tw.entries) :
      (tw.entries[i].h.format = FormatPAX) <=> cfg.createPreserve

-----------------------------------------------------------------------------
(* C7 *)

\* going from root to path starts with a step upwards
Upward(root, path) ==
    /\ ~Rel(root, path).err
    /\ Rel(root, path).path.segs # <<>>
    /\ Head(Rel(root, path).path.segs) = ".."

\* C7: the name relative(root, path) gives to a path that lies upwards of
\* root does not begin with "../", and joined to a destination it names
\* the destination or something below it.
C7_Containment ==
    \A i \in 1..Len(archived) :
      (/\ ~IsAbs(archived[i])
       /\ ~cfg.isRelativePath
       /\ Upward(cfg.root, archived[i]))
      => /\ ~HasDotDotSlashPrefix(tw.entries[i].h.name)
         /\ Inside(cfg.dst, Join(cfg.dst, tw.entries[i].h.name))

-----------------------------------------------------------------------------
(* C8 *)

-----------------------------------------------------------------------------
(* C9 *)

\* C9: at every point of Extract the bytes written, the error and the byte
\* count returned, the directory metadata kept and the kinds, bytes and
\* link targets in the file system are those of the same call on a system
\* that refuses every chmod, chtimes and chown.
C9_MetadataFailuresChangeNothing ==
    /\ Content(denied.fs) = Content(fs)
    /\ denied.written = xwritten
    /\ denied.err = xerr
    /\ denied.n = xn
    /\ denied.dirMetadata = dirMetadata

\* Extract with preserveMetadata has returned nil to a caller who is not
\* root, having restored a file of another owner: the file has its bytes
\* and its times, not the owner (os.Chown was refused), and on the
\* system that refuses everything not the times either
C9_ChownRefused ==
    /\ ExtractSucceeded /\ cfg.extractPreserve
    /\ cfg.euid = CallerUid /\ cfg.goos = "linux"
    /\ \E i \in 1..Len(stream) :
         /\ stream[i].h.typeflag = TypeReg
         /\ stream[i].h.uid = OtherUid
         /\ fs[TargetOf(stream[i])].data = stream[i].payload
         /\ fs[TargetOf(stream[i])].uid = CallerUid
         /\ fs[TargetOf(stream[i])].mt = stream[i].h.mt
         /\ denied.fs[TargetOf(stream[i])].mt # stream[i].h.mt
         /\ xn = denied.n /\ xn > 0

-----------------------------------------------------------------------------
(* C10 *)

\* Create has returned
CreateReturned == cfg.scenario = "roundtrip" /\ pc \in {"extract", "flush", "done"}

\* C10: when the sink has refused a write of Create, the trailer written by
\* Close included, Create returns an error.
C10_SinkErrorReturned ==
    (CreateReturned /\ sink.rejected) => cerr # "nil"

-----------------------------------------------------------------------------
(* C11 *)

\* C11: when Extract has returned an error, whichever step failed, the byte
\* count it returned is the number of payload bytes it had written to the
\* destination.
C11_AbortReportsWritten ==
    (ExtractReturned /\ xerr # "nil") => xn = xwritten

-----------------------------------------------------------------------------
(* C12 *)

\* C12: when the tar reader has reported an error, in a header block or
\* inside the payload of an entry, Extract has returned the error that
\* wraps ErrArchiveNotReadable.
C12_StreamErrorNotReadable ==
    rerr # "nil"
    => (pc = "done" /\ xerr = "tar reader, " \o ErrArchiveNotReadable)

-----------------------------------------------------------------------------
(* C13 *)

RECURSIVE PayloadOf(_, _)
\* the bytes of the regular files among the first k of the paths
PayloadOf(paths, k) ==
    IF k = 0 THEN 0
    ELSE PayloadOf(paths, k - 1)
         + (IF World[Abs(paths[k])].kind = "file"
            THEN Len(World[Abs(paths[k])].data) ELSE 0)

\* Create has returned after coming to its i-th source, the first that
\* os.Lstat does not find
StoppedAtSource(i) ==
    /\ CreateReturned
    /\ i <= srcIdx
    /\ ~Exists(World, cfg.srcs[i])
    /\ \A j \in 1..(i - 1) : Exists(World, cfg.srcs[j])

\* C13: when the i-th source cannot be stat'd, Create returns the error
\* wrapping ErrSourceNotReachable and the bytes of the files archived from
\* the sources before it, and every path archived was walked from a source
\* before the i-th.
C13_UnreachableSourceStops ==
    \A i \in 1..Len(cfg.srcs) :
      StoppedAtSource(i)
      => /\ cerr = "make sure file or directory readable, " \o ErrSourceNotReachable
         /\ cwritten = PayloadOf(archived, Len(archived))
         /\ \A k \in 1..Len(archived) :
              \E j \in 1..(i - 1) :
                \E m \in 1..Len(Walk(World, cfg.srcs[j])) :
                  Walk(World, cfg.srcs[j])[m] = archived[k]
         /\ \A j \in 1..(i - 1) :
              \A m \in 1..Len(Walk(World, cfg.srcs[j])) :
                (World[Abs(Walk(World, cfg.srcs[j])[m])].kind # "symlink"
                 \/ ~cfg.skipSymlinks)
                => \E k \in 1..Len(archived) : archived[k] = Walk(World, cfg.srcs[j])[m]

\* Create has stopped at its second source, which does not exist, after
\* archiving the two bytes of the first; the third was not walked
C13_SecondSourceMissing ==
    /\ StoppedAtSource(2)
    /\ srcIdx = 2
    /\ Len(cfg.srcs) = 3
    /\ cwritten = 2
    /\ archived = <<cfg.srcs[1]>>
    /\ cerr # "nil"

-----------------------------------------------------------------------------
(* C14 *)

\* the type flag of e is none of directory, regular or device-like,
\* symlink, hard link, global extended header
UnknownType(e) ==
    e.h.typeflag \notin {TypeDir, TypeReg, TypeRegA, TypeChar, TypeBlock, TypeFifo,
                         TypeSymlink, TypeLink, TypeXGlobalHeader}

-----------------------------------------------------------------------------
(* C15 *)

\* C15: with skipSymlinks off, the entry Create writes for a symlink has
\* the link's target string, no payload and size 0, and adds nothing to the
\* byte count; after Extract of the archive has returned nil, the entry's
\* destination is a symlink with that very target string.
C15_SymlinkRoundTrip ==
    (cfg.scenario = "roundtrip" /\ ~cfg.skipSymlinks)
    => \A i \in 1..Len(archived) :
         Source(i).kind = "symlink"
         => /\ tw.entries[i].h.typeflag = TypeSymlink
            /\ tw.entries[i].h.linkname = Source(i).link
            /\ tw.entries[i].h.size = 0
            /\ tw.entries[i].payload = <<>>
            /\ (i = Len(archived) /\ cerr = "nil")
               => cwritten = PayloadOf(archived, i - 1)
            /\ ExtractSucceeded
               => /\ TargetOf(tw.entries[i]) \in DOMAIN fs
                  /\ fs[TargetOf(tw.entries[i])].kind = "symlink"
                  /\ fs[TargetOf(tw.entries[i])].link = Source(i).link

\* a round trip has restored a symlink below a destination that was empty,
\* after a file with payload was archived before it
C15_SymlinkRestored ==
    /\ cfg.scenario = "roundtrip" /\ ~cfg.skipSymlinks
    /\ ExtractSucceeded
    /\ cfg.dst = R(<<"out">>)
    /\ cwritten > 0
    /\ \E i \in 1..Len(archived) :
         /\ Source(i).kind = "symlink"
         /\ Source(i).link = R(<<"f">>)
         /\ TargetOf(tw.entries[i]) = A(<<"w", "out", "d", "l">>)
         /\ fs[TargetOf(tw.entries[i])].link = R(<<"f">>)

-----------------------------------------------------------------------------
(* C16 *)

RECURSIVE Walked(_)
\* the paths the walks of the first k sources hand to the callback
Walked(k) ==
    IF k = 0 THEN <<>> ELSE Walked(k - 1) \o Walk(World, cfg.srcs[k])

\* the paths the callback has been called for and returned nil
Visited ==
    IF pc = "walk"
    THEN Walked(srcIdx - 1)
         \o SubSeq(Walk(World, cfg.srcs[srcIdx]), 1,
                   Len(Walk(World, cfg.srcs[srcIdx])) - Len(queue))
    ELSE Walked(srcIdx - 1)

\* C16: with skipSymlinks set no entry Create writes is a symlink's, the
\* paths archived are the visited paths that are no symlinks, in order, and
\* when Create fails a source was not found, the sink refused a write or a
\* name did not resolve: no symlink makes it fail.
C16_SymlinksSkipped ==
    (cfg.scenario = "roundtrip" /\ cfg.skipSymlinks)
    => /\ Len(tw.entries) = Len(archived)
       /\ \A i \in 1..Len(archived) :
            /\ Source(i).kind # "symlink"
            /\ tw.entries[i].h.typeflag # TypeSymlink
       /\ cerr = "nil"
          => LET NoSymlink(path) == World[Abs(path)].kind # "symlink"
             IN  archived = SelectSeq(Visited, NoSymlink)
       /\ cerr # "nil"
          => \/ ~Exists(World, cfg.srcs[srcIdx])
             \/ sink.rejected
             \/ EntryName(cfg.root, Head(queue), cfg.isRelativePath).err

\* Create with skipSymlinks has returned nil after walking d: the symlink
\* d/l was visited and the four other nodes were archived
C16_WalkedPastSymlink ==
    /\ cfg.scenario = "roundtrip" /\ cfg.skipSymlinks
    /\ CreateReturned /\ cerr = "nil"
    /\ cfg.srcs = <<R(<<"d">>)>>
    /\ \E k \in 1..Len(Visited) : Visited[k] = R(<<"d", "l">>)
    /\ archived = <<R(<<"d">>), R(<<"d", "f">>), R(<<"d", "s">>), R(<<"d", "s", "g">>)>>
    /\ cwritten = 3

-----------------------------------------------------------------------------
(* C17 *)

\* C17: when Create has returned nil, the byte count it returned is the sum
\* of the sizes of the regular files it archived; when Extract of the
\* archive has returned nil, it returned the same count, whatever
\* preserveMetadata was for the one and for the other.
C17_ByteAccounting ==
    cfg.scenario = "roundtrip"
    => /\ (CreateReturned /\ cerr = "nil")
          => cwritten = PayloadOf(archived, Len(archived))
       /\ ExtractSucceeded
          => /\ xn = cwritten
             /\ xn = PayloadOf(archived, Len(archived))

\* an archive of two files, three bytes, created without preserveMetadata
\* was extracted with it, and both calls returned 3
C17_PlainArchiveExtractedPreserving ==
    /\ cfg.scenario = "roundtrip"
    /\ ~cfg.createPreserve /\ cfg.extractPreserve
    /\ ExtractSucceeded
    /\ cwritten = 3 /\ xn = 3
    /\ Len(archived) > 2

-----------------------------------------------------------------------------
(* C18 *)

\* C18: with preserveMetadata on, on a platform with POSIX status data,
\* every header Create writes has the owner, the group, the permission bits
\* and the modification time of its node, and an access time and a change
\* time that are set and equal to the modification time.
C18_HeadersCarryMetadata ==
    (cfg.scenario = "roundtrip" /\ cfg.createPreserve /\ cfg.goos # "windows")
    => \A i \in 1..Len(archived) :
         /\ tw.entries[i].h.uid = Source(i).uid
         /\ tw.entries[i].h.gid = Source(i).gid
         /\ tw.entries[i].h.mode = Source(i).mode
         /\ tw.entries[i].h.mt = Source(i).mt
         /\ ~IsZero(tw.entries[i].h.at) /\ tw.entries[i].h.at = Source(i).mt
         /\ ~IsZero(tw.entries[i].h.ct) /\ tw.entries[i].h.ct = Source(i).mt

-----------------------------------------------------------------------------
(* C19 *)

\* C19: with preserveMetadata on, on a platform whose file info has no
\* POSIX status data, every header Create writes has an access time and a
\* change time that are set and equal to the modification time.
C19_FallbackToModTime ==
    (cfg.scenario = "roundtrip" /\ cfg.createPreserve /\ cfg.goos = "windows")
    => \A i \in 1..Len(archived) :
         /\ ~IsZero(tw.entries[i].h.at) /\ tw.entries[i].h.at = tw.entries[i].h.mt
         /\ ~IsZero(tw.entries[i].h.ct) /\ tw.entries[i].h.ct = tw.entries[i].h.mt


-----------------------------------------------------------------------------
(* C20: the backend call against its context                                *)

CtxResult == result(FALSE, ctxErr)

\* C20, as stated: a Get, Put or Exists that returned with ctx.Done() closed
\* before the worker's result was received returned ctx.Err() (Exists with
\* false); otherwise it returned the worker's result, nil exactly when the
\* worker reported no failure.
C20_SignalFirstReturnsCtxErr ==
    caller.pc = "returned"
    => IF caller.done
         THEN caller.ret = CtxResult
         ELSE /\ caller.ret # CtxResult
              /\ caller.ret.err = "nil" <=> worker.failures = <<>>

\* C20, amended: a Get, Put or Exists returns ctx.Err() (Exists with false)
\* only if ctx.Done() was closed when its select chose, and the worker's
\* result only if the worker was sending or had closed the channel; so it
\* returns ctx.Err() when only the signal was ready and the worker's result
\* when only the worker was, and either when both were. The worker's
\* result is the first failure it reported, and nil exactly when it
\* reported none (Get and Put: it returned without a failure).
C20_RaceReturnsAReadyCase ==
    caller.pc = "returned"
    => /\ caller.ret = CtxResult => caller.done
       /\ caller.ret # CtxResult
          => /\ caller.ready
             /\ caller.ret.err = "nil" <=> worker.failures = <<>>
             /\ caller.ret.err # "nil" => caller.ret = result(FALSE, Head(worker.failures))
             /\ (call.op # "Exists" /\ caller.ret.err = "nil") => (worker.st = "exited" /\ ~caller.ret.val)

\* C20: an Exists whose worker was sending while ctx.Done() was closed
\* returned false with ctx.Err()
C20_BothReadySignalTaken ==
    /\ call.op = "Exists"
    /\ caller.pc = "returned"
    /\ caller.done
    /\ caller.ready
    /\ caller.ret = CtxResult

-----------------------------------------------------------------------------
(* C21 *)

RECURSIVE FlushFrom(_, _, _)
\* the file system after the flush has applied ds[k], ds[k+1], ... to f
FlushFrom(f, ds, k) ==
    IF k > Len(ds) THEN f
    ELSE FlushFrom(ApplyDirMetadata(f, ds[k], dirMetadata[ds[k]], cfg.goos, cfg.euid, ByOS),
                   ds, k + 1)

\* C21: when the flush of Extract starts, the file system it leaves behind
\* is the same for every order in which the range loop may have met the
\* keys of dirMetadata, ties among paths of equal length included.
C21_FlushOrderImmaterial ==
    (pc = "flush" /\ applied = 0)
    => \A order \in RangeOrders(DOMAIN dirMetadata) :
         FlushFrom(fs, SortByLength(order), 1) = FlushFrom(fs, dirs, 1)

-----------------------------------------------------------------------------
(* C22 *)

\* C22: when Extract with preserveMetadata has returned, with nil or with an
\* error, the flush has applied every record that dirMetadata held.
C22_PendingAppliedOnReturn ==
    (ExtractReturned /\ cfg.extractPreserve)
    => \A dir \in DOMAIN dirMetadata : \E i \in 1..applied : dirs[i] = dir

-----------------------------------------------------------------------------
(* C23 *)

\* every directory is as it was before the call or as os.MkdirAll made it
\* with the default permissions: no stored mode, time or owner is on it
DirsAsMade ==
    \A q \in DOMAIN fs :
      fs[q].kind = "dir"
      => IF q \in DOMAIN World
         THEN /\ fs[q].mode = World[q].mode
              /\ fs[q].uid = World[q].uid /\ fs[q].gid = World[q].gid
              /\ fs[q].at = World[q].at
              /\ fs[q].mt \in {World[q].mt, Now}
         ELSE /\ fs[q].mode = defaultDirPermission
              /\ fs[q].uid = cfg.euid /\ fs[q].gid = cfg.euid
              /\ fs[q].at = Now /\ fs[q].mt = Now

\* tr.Next has returned io.EOF or can do nothing else
Exhausted == cfg.scenario = "roundtrip" => Len(stream) = Len(tw.entries)

\* C23: in Extract with preserveMetadata, while entries are read no stored
\* mode, time or owner is on any directory and nothing of the flush has
\* happened; an entry is read only before the flush, and the flush applies
\* a record only after the last entry, reading and restoring no entry.
C23_FlushAfterLastEntry ==
    /\ [](cfg.extractPreserve /\ pc = "extract" => DirsAsMade /\ applied = 0 /\ dirs = <<>>)
    /\ [][cfg.extractPreserve
          => /\ stream' # stream => (pc = "extract" /\ applied' = 0)
             /\ applied' # applied
                => /\ pc = "flush" /\ Exhausted
                   /\ stream' = stream /\ xwritten' = xwritten
                   /\ Content(fs') = Content(fs)
             /\ pc = "flush" => stream' = stream]_vars

\* Extract with preserveMetadata has read a directory, a directory in it and
\* a file, and then flushed: the directory made with the default permissions
\* has its stored mode
C23_FlushedAfterThreeEntries ==
    /\ ExtractSucceeded /\ cfg.extractPreserve
    /\ cfg.scenario = "foreign" /\ cfg.dst = R(<<"out">>)
    /\ Len(stream) = 3 /\ Len(dirs) = 2 /\ applied = 2
    /\ stream[1].h.name = R(<<"a">>) /\ stream[1].h.mode # defaultDirPermission
    /\ stream[3].h.typeflag = TypeReg
    /\ fs[A(<<"w", "out", "a">>)].mode = stream[1].h.mode

-----------------------------------------------------------------------------
(* C24 *)

\* the directory entries read so far
DirEntries == {i \in 1..Len(stream) : stream[i].h.typeflag = TypeDir}

\* the destination path of the i-th entry read, the key of its record
KeyOf(i) == Target(cfg.dst, stream[i].h.name).target

\* the last directory entry read whose destination path is k
LastFor(k) == CHOOSE i \in DirEntries : KeyOf(i) = k /\ \A j \in DirEntries : KeyOf(j) = k => j <= i

\* the record rec holds mode, times, owner and group of the header h
Holds(rec, h) == rec.mode = h.mode /\ rec.at = h.at /\ rec.mt = h.mt /\ rec.uid = h.uid /\ rec.gid = h.gid

\* the turn of the loop that restores a directory entry without
\* preserveMetadata and goes on
PlainDirTurn == ~cfg.extractPreserve /\ pc = "extract" /\ pc' = "extract" /\ Len(stream') = Len(stream) + 1 /\ stream'[Len(stream')].h.typeflag = TypeDir

\* C24 as stated: when the flush starts, dirMetadata has for every directory
\* entry read a record under the entry's destination path that holds the
\* entry's mode, times, owner and group, and no other record; without
\* preserveMetadata dirMetadata stays empty and the directory of an entry
\* has the entry's mode once the entry is restored.
C24_OneRecordPerEntryAsStated ==
    /\ []((pc = "flush" /\ applied = 0)
          => /\ DOMAIN dirMetadata = {KeyOf(i) : i \in DirEntries}
             /\ \A i \in DirEntries : Holds(dirMetadata[KeyOf(i)], stream[i].h))
    /\ [](~cfg.extractPreserve => dirMetadata = NoMeta)
    /\ [][PlainDirTurn
          => fs'[Abs(Target(cfg.dst, stream'[Len(stream')].h.name).target)].mode
             = stream'[Len(stream')].h.mode]_vars

\* C24: while Extract with preserveMetadata reads entries and when its
\* flush starts, dirMetadata has one record for every destination path of a
\* directory entry read, holding mode, times, owner and group of the last
\* directory entry read with that path, and no other record.  Without
\* preserveMetadata dirMetadata stays empty, and a directory entry whose
\* destination does not exist is made at once with the entry's mode, while
\* an existing directory is left as it is.
C24_OneRecordPerPath ==
    /\ []((cfg.extractPreserve /\ pc \in {"extract", "flush"})
          => /\ DOMAIN dirMetadata = {KeyOf(i) : i \in DirEntries}
             /\ \A k \in DOMAIN dirMetadata : Holds(dirMetadata[k], stream[LastFor(k)].h))
    /\ [](~cfg.extractPreserve => dirMetadata = NoMeta)
    /\ [][PlainDirTurn
          => \E t \in {Abs(Target(cfg.dst, stream'[Len(stream')].h.name).target)} :
               IF t \in DOMAIN fs
               THEN fs'[t] = fs[t]
               ELSE fs'[t].kind = "dir" /\ fs'[t].mode = stream'[Len(stream')].h.mode]_vars

\* the flush starts after two directory entries with one destination path
\* and different modes and times were read: the one record is the second's
C24_TwoEntriesOnePath ==
    /\ cfg.extractPreserve /\ pc = "flush" /\ applied = 0
    /\ Len(stream) = 2
    /\ KeyOf(1) = KeyOf(2)
    /\ stream[1].h.mode # stream[2].h.mode
    /\ DOMAIN dirMetadata = {KeyOf(1)}
    /\ Holds(dirMetadata[KeyOf(1)], stream[2].h)

-----------------------------------------------------------------------------
(* C25 *)

\* C25: once Extract has restored a regular entry without error, the file
\* at the entry's destination holds the bytes of the entry's payload and
\* no others, whatever was at the destination before.
C25_RegularContentIsPayload ==
    (/\ Len(stream) > 0
     /\ stream[Len(stream)].h.typeflag \in RegularTypes
     /\ (pc \in {"extract", "flush"} \/ ExtractSucceeded))
    => fs[TargetOf(stream[Len(stream)])].data = stream[Len(stream)].payload

-----------------------------------------------------------------------------
(* C26 *)

\* C26: the flush order is a permutation of the keys of dirMetadata, each
\* key once, in non-increasing order of string length, and when Extract has
\* returned nil after the flush every element of the order was applied.
C26_FlushOrderSortedPermutation ==
    (cfg.extractPreserve /\ (pc = "flush" \/ ExtractSucceeded))
    => /\ Len(dirs) = Cardinality(DOMAIN dirMetadata)
       /\ {dirs[i] : i \in 1..Len(dirs)} = DOMAIN dirMetadata
       /\ \A i, j \in 1..Len(dirs) : i < j => StrLen(dirs[i]) >= StrLen(dirs[j])
       /\ applied <= Len(dirs)
       /\ ExtractSucceeded => applied = Len(dirs)

\* the flush has applied three directories in order, the last two of them
\* of equal length and shorter than the first
C26_ThreeFlushedWithTie ==
    /\ cfg.extractPreserve /\ ExtractSucceeded
    /\ Len(dirs) = 3 /\ applied = 3
    /\ StrLen(dirs[1]) > StrLen(dirs[2])
    /\ StrLen(dirs[2]) = StrLen(dirs[3])
    /\ dirs[2] # dirs[3]

-----------------------------------------------------------------------------
(* C27 *)

\* Extract has made the node at q or changed its kind, bytes, link target,
\* mode or owner
MadeOrChanged(q) ==
    \/ q \notin DOMAIN World
    \/ Content(fs)[q] # Content(World)[q]
    \/ fs[q].mode # World[q].mode
    \/ fs[q].uid # World[q].uid

\* C27: when no entry read has an absolute name, whatever its name holds,
\* every node Extract has made or changed is the destination or lies below it.
C27_EntriesStayBelowDst ==
    (\A i \in 1..Len(stream) : ~IsAbs(stream[i].h.name))
    => \A q \in DOMAIN fs : MadeOrChanged(q) => Inside(cfg.dst, q)

-----------------------------------------------------------------------------
(* C28 *)

\* C28: when every entry Extract has read is a global extended header, the
\* file system is as it was before the call, no directory made, and Extract
\* has returned no error.
C28_GlobalHeaderNoEffect ==
    (/\ Len(stream) > 0
     /\ \A i \in 1..Len(stream) : stream[i].h.typeflag = TypeXGlobalHeader)
    => fs = World /\ xerr = "nil"

-----------------------------------------------------------------------------
(* C29 *)

\* C29: a name that does not resolve ends only its own entry.  When Create
\* has returned and the callback failed to resolve the name of a path, no
\* path of the walk and no source came after that path; when Extract of what
\* Create wrote has returned and the name of the last entry read did not
\* resolve, no entry came after it.
C29_EntriesAfterFailureProcessed ==
    /\ (/\ CreateReturned
        /\ queue # <<>>
        /\ EntryName(cfg.root, Head(queue), cfg.isRelativePath).err)
       => (Len(queue) = 1 /\ srcIdx = Len(cfg.srcs))
    /\ (/\ cfg.scenario = "roundtrip"
        /\ ExtractReturned
        /\ Len(stream) > 0
        /\ Target(cfg.dst, stream[Len(stream)].h.name).err)
       => Len(stream) = Len(tw.entries)

-----------------------------------------------------------------------------
(* C30 *)

RECURSIVE TarBytes(_)
\* the payload bytes the tar writer has taken for the entries es
TarBytes(es) == IF es = <<>> THEN 0 ELSE Len(Head(es).payload) + TarBytes(Tail(es))

\* C30: when Create has returned because the copy of a file's payload
\* failed, the failing file is the last entry written, no source after the
\* one walked was begun, and the byte count returned is the number of
\* payload bytes written to the archive, those of the failing file included.
C30_CopyFailureCountsPartial ==
    (CreateReturned /\ cerr = "walk: write file to archive")
    => /\ archived[Len(archived)] = Head(queue)
       /\ Len(tw.entries) = Len(archived)
       /\ cwritten = TarBytes(tw.entries)

-----------------------------------------------------------------------------
(* C31 *)

\* the access time C31 asks for: the header's own when it is set, the
\* header's modification time otherwise
AccessTimeFor(h) == IF IsZero(h.at) THEN h.mt ELSE h.at

\* the entries of the stream that are the only ones to resolve to their path
\* and whose restored node the caller may change
RestoredAlone == {i \in 1..Len(stream) : /\ ~Target(cfg.dst, stream[i].h.name).err
                                         /\ \A j \in 1..Len(stream) : TargetOf(stream[j]) = TargetOf(stream[i]) => j = i
                                         /\ Exists(fs, TargetOf(stream[i]))
                                         /\ MayChangeNode(fs, TargetOf(stream[i]), cfg.euid)}

\* C31: with preserveMetadata, the access time the flush hands to Chtimes for
\* a directory is the access time of the directory's last entry when that is
\* set and its modification time otherwise, never the zero time; and once
\* Extract has returned nil, a regular file or hard link restored from its
\* only entry carries that access time.
C31_AccessTimeNeverUnset ==
    cfg.extractPreserve
    => /\ \A i \in 1..applied :
            /\ ~IsZero(dirMetadata[dirs[i]].at)
            /\ dirMetadata[dirs[i]].at = AccessTimeFor(stream[LastFor(dirs[i])].h)
       /\ ExtractSucceeded
          => \A i \in RestoredAlone :
                stream[i].h.typeflag \in RegularTypes \cup {TypeLink}
                => fs[TargetOf(stream[i])].at = AccessTimeFor(stream[i].h)

-----------------------------------------------------------------------------
(* C32 *)

\* what the worker goroutine does while it can run
WorkerStep == WorkerOk \/ WorkerFail \/ WorkerReturn

\* what the caller does at its select
SelectStep == SelectResult \/ SelectDone

\* The backend under the Go scheduler: the go statement is executed, a
\* goroutine that can run is run, every call the worker makes returns, and a
\* select with a ready case takes one. A goroutine blocked on a channel
\* operation is not runnable, and nothing obliges ctx to be cancelled.
FairBackend == SpecBackend /\ WF_vars(GoWorker) /\ WF_vars(WorkerStep) /\ WF_vars(SelectStep)

\* C32: the worker goroutine a call of Get, Put or Exists has started
\* eventually returns and closes its channel, whatever the caller did.
C32_WorkerTerminates == <>(worker.st = "exited" /\ ch.closed)

=============================================================================
